---- MODULE Spec2Model ----
(***************************************************************************)
(* Model of the business-hours engine of WorkstationCALC                   *)
(* (src/time_utils.py).                                                    *)
(*                                                                         *)
(* Time.  A datetime is an integer number of ticks since Monday 00:00 of   *)
(* week 0; a tick stands for the part of a datetime below the minute       *)
(* (seconds), a slot for one hour:minute value of the day.  A              *)
(* datetime.time held by the configuration is a slot number: the code      *)
(* reads only its hour and minute (lines 77-79 and 118-123).               *)
(*                                                                         *)
(* Spec runs every call of the module's API to completion before the next *)
(* one starts (one thread).  SpecConc runs set_business_hours in one       *)
(* thread and business_hours_breakdown in another, one access to the       *)
(* shared _CONFIG object per step.  SpecLoop runs one                      *)
(* business_hours_breakdown call step by step, SpecCalc one                *)
(* calculate_hours call on arguments of every form, SpecRound its          *)
(* conversion to hours, and SpecApp the queue bookkeeping of               *)
(* OrderScraperApp.refresh_orders (src/ui/order_app.py).  SpecSettings     *)
(* runs OrderScraperApp.update_business_hours, SpecReport the report       *)
(* helper _calc_hours, SpecLog and SpecPrint the two writers of            *)
(* src/data/db.py.                                                         *)
(***************************************************************************)
EXTENDS Integers, Sequences, FiniteSets, TLC

VARIABLES
    cfgStart,    \* _CONFIG.start, a slot
    cfgEnd,      \* _CONFIG.end, a slot
    argStart,    \* the start datetime handed to the duration functions
    argEnd,      \* the end datetime handed to the duration functions
    ret,         \* the last completed call: [op, val]
    wpc,         \* SpecConc: position of the thread inside set_business_hours
    wStart,      \* SpecConc: set_business_hours' parameter start
    wEnd,        \* SpecConc: set_business_hours' parameter end
    wOld,        \* SpecConc: the configuration stored when set_business_hours was entered
    sets,        \* SpecConc: number of set_business_hours calls entered so far
    bpc,         \* SpecConc: position of the thread inside business_hours_breakdown
    current,     \* SpecConc: business_hours_breakdown's local current
    segments,    \* SpecConc: business_hours_breakdown's local segments
    start_time,  \* SpecConc: business_hours_breakdown's local start_time
    snap,        \* SpecConc: the configuration stored when business_hours_breakdown was entered
    reads,       \* SpecConc: the values the running call has read from _CONFIG
    timedelta,   \* SpecRound: the timedelta calculate_hours converts to hours
    credentials, \* SpecApp: whether OrderScraperApp.credentials is set
    last_queue,  \* SpecApp: OrderScraperApp.last_queue
    seen_queue_jobs, \* SpecApp: OrderScraperApp.seen_queue_jobs
    refresh,     \* SpecApp: the last completed refresh_orders call
    fetched,     \* SpecApp: the jobs of the queue the last successful refresh fetched
    clean,       \* SpecApp: no refresh_orders call has raised so far
    config,      \* SpecSettings: OrderScraperApp.config, a dict as a set of (key, value)
    saved_config, \* SpecSettings: the dict save_config wrote last
    steps_table, \* SpecLog: the rows of the steps table
    print_file,  \* SpecPrint: the rows of the print_file table
    now,         \* SpecPrint: the last value datetime.utcnow() returned
    first_call   \* SpecPrint: per order, the time of its first record_print_file_start call

vars == <<cfgStart, cfgEnd, argStart, argEnd, ret, wpc, wStart, wEnd, wOld, sets,
          bpc, current, segments, start_time, snap, reads,
          timedelta, credentials, last_queue, seen_queue_jobs, refresh, fetched, clean,
          config, saved_config, steps_table, print_file, now, first_call>>

concVars == <<wpc, wStart, wEnd, wOld, sets, bpc, current, segments, start_time, snap, reads>>

dataVars == <<config, saved_config, steps_table, print_file, now, first_call>>

extVars == <<timedelta, credentials, last_queue, seen_queue_jobs, refresh, fetched, clean,
             dataVars>>

----------------------------------------------------------------------------
(* Bounds of the model. *)

\* SpecRound: the longest timedelta converted, in seconds
MaxSeconds == 40

\* SpecRound: how many microseconds around a whole second are distinguished
MaxMicros == 5

\* SpecApp: the number of jobs the order queue can hold
NumJobs == 3

\* SpecApp: the longest list parse_queue returns
MaxQueueLen == 3

\* SpecLog: the longest list of steps handed to log_order
MaxSteps == 2

\* SpecPrint: the latest value of the clock
MaxClock == 3

\* hour:minute values of one day that the model distinguishes
SlotsPerDay == 3

\* ticks (sub-minute instants) per slot
TicksPerSlot == 2

\* first calendar day of the datetimes drawn as inputs (0 is a Monday, 4 a Friday)
FirstDay == 4

\* number of calendar days the inputs range over
NumDays == 4

\* SpecConc: set_business_hours calls the settings thread makes
MaxSets == 2

TicksPerDay == SlotsPerDay * TicksPerSlot

\* the datetimes drawn as inputs: every tick of the days, and the midnight that ends them
Times == (FirstDay * TicksPerDay) .. ((FirstDay + NumDays) * TicksPerDay)

\* the datetime.time values handed to set_business_hours
Slots == 0 .. (SlotsPerDay - 1)

----------------------------------------------------------------------------
(* BusinessHoursConfig defaults: time(7, 0) and time(22, 0), on the slot scale. *)

DefaultStart == 1

DefaultEnd == 2

----------------------------------------------------------------------------
(* datetime arithmetic *)

\* dt.date(), as a day number
DayOf(dt) == dt \div TicksPerDay

\* dt.weekday(): Monday is 0, Sunday is 6
weekday(dt) == DayOf(dt) % 7

\* dt.replace(hour=t.hour, minute=t.minute, second=0, microsecond=0)
replace(dt, t) == DayOf(dt) * TicksPerDay + t * TicksPerSlot

plus_one_day_mut(dt) == dt

\* dt + timedelta(days=1)
plus_one_day(dt) == dt + TicksPerDay

min_mut(a, b) == a

min(a, b) == IF a <= b THEN a ELSE b

----------------------------------------------------------------------------
(* Configuration accessors *)

get_business_start == cfgStart

get_business_end == cfgEnd

\* the guard of set_business_hours
invalid_hours_mut(start, end) == start > end

invalid_hours(start, end) == start >= end

set_business_hours_mut(start, end) ==
    /\ ret' = [op |-> "set_business_hours",
               val |-> IF invalid_hours(start, end) THEN "ValueError" ELSE "None",
               args |-> <<start, end>>]
    /\ UNCHANGED <<cfgStart, cfgEnd>>

\* set_business_hours, run to completion
set_business_hours(start, end) ==
    IF invalid_hours(start, end)
    THEN /\ ret' = [op |-> "set_business_hours", val |-> "ValueError", args |-> <<start, end>>]
         /\ UNCHANGED <<cfgStart, cfgEnd>>
    ELSE /\ cfgStart' = start
         /\ cfgEnd' = end
         /\ ret' = [op |-> "set_business_hours", val |-> "None", args |-> <<start, end>>]

----------------------------------------------------------------------------
(* Segmentation *)

next_business_start_mut(dt) == plus_one_day(dt)

next_business_start(dt) ==
    LET next_day == plus_one_day(dt)
        start == get_business_start
    IN  replace(next_day, start)

\* current.weekday() >= 5
is_weekend_mut(dt) == weekday(dt) >= 6

is_weekend(dt) == weekday(dt) >= 5

\* the while loop of business_hours_breakdown, from the loop test on
RECURSIVE while_loop(_, _, _)
while_loop(cur, end, segs) ==
    IF ~(cur < end) THEN segs
    ELSE IF is_weekend(cur) THEN while_loop(next_business_start(cur), end, segs)
    ELSE LET st == get_business_start
             et == get_business_end
             day_start == replace(cur, st)
             day_end == replace(cur, et)
             cur2 == IF cur < day_start THEN day_start ELSE cur
         IN  IF cur2 >= day_end
             THEN while_loop(next_business_start(cur2), end, segs)
             ELSE LET segment_end == min(day_end, end)
                  IN  while_loop(next_business_start(cur2), end,
                                 Append(segs, <<cur2, segment_end>>))

business_hours_breakdown(start, end) == while_loop(start, end, <<>>)

\* total += seg_end - seg_start over the segments
RECURSIVE sum_segments(_)
sum_segments(segs) ==
    IF segs = <<>> THEN 0
    ELSE (Head(segs)[2] - Head(segs)[1]) + sum_segments(Tail(segs))

business_hours_delta_mut(start, end) ==
    IF start >= end THEN 0
    ELSE LET segs == business_hours_breakdown(start, end)
         IN  IF segs = <<>> THEN 0 ELSE Head(segs)[2] - Head(segs)[1]

business_hours_delta(start, end) ==
    IF start >= end THEN 0
    ELSE sum_segments(business_hours_breakdown(start, end))

hours_breakdown_mut(start, end) ==
    IF start >= end THEN <<0, 0>>
    ELSE LET total == end - start
             business == business_hours_delta(start, end)
         IN  <<business, total>>

hours_breakdown(start, end) ==
    IF start >= end THEN <<0, 0>>
    ELSE LET total == end - start
             business == business_hours_delta(start, end)
             after_hours == total - business
         IN  <<business, after_hours>>

----------------------------------------------------------------------------
(* calculate_hours.  An argument is a record [kind, t, tz]:                *)
(*   kind  "None", "str_empty", "other_falsy" (0, False, []),              *)
(*         "other_truthy" (5, an object), "str_bad" (no ISO and no legacy  *)
(*         date), "datetime", "str_iso", "str_legacy" ("%Y-%m-%d %H:%M"    *)
(*         text that fromisoformat rejects);                               *)
(*   t     the wall-clock datetime it holds or denotes, in ticks;          *)
(*   tz    its tzinfo: "naive" (None), "UTC" and "+01:00"                  *)
(*         (datetime.timezone, equal when their offsets are), or           *)
(*         "Europe/London" (a zoneinfo.ZoneInfo: equal to itself only).    *)
(* Every value has an ordinary truth value; the result is in hundredths    *)
(* of an hour.                                                             *)

\* the tzinfo values of aware datetimes
AwareZones == {"UTC", "+01:00", "Europe/London"}

\* the calendar day on which Europe/London goes from +00:00 to +01:00
DstDay == FirstDay + 2

\* dt.utcoffset() in hours, for an aware datetime
utcoffset(tz, t) ==
    CASE tz = "UTC" -> 0
      [] tz = "+01:00" -> 1
      [] tz = "Europe/London" -> IF DayOf(t) >= DstDay THEN 1 ELSE 0

is_missing_mut(v) == v.kind = "None"

\* `not value` (line 194)
is_missing(v) == v.kind \in {"None", "str_empty", "other_falsy"}

\* _to_datetime: the datetime, or the exception raised
to_datetime(v) ==
    CASE v.kind = "datetime" -> [ok |-> TRUE, t |-> v.t, tz |-> v.tz]
      [] v.kind = "str_iso" -> [ok |-> TRUE, t |-> v.t, tz |-> v.tz]
      [] v.kind = "str_legacy" -> [ok |-> TRUE, t |-> v.t, tz |-> "naive"]
      [] v.kind \in {"str_bad", "str_empty"} -> [ok |-> FALSE, exc |-> "ValueError"]
      [] OTHER -> [ok |-> FALSE, exc |-> "TypeError"]

zones_differ_mut(tz1, tz2) == FALSE

\* start_dt.tzinfo is not None and end_dt.tzinfo is not None
\* and start_dt.tzinfo != end_dt.tzinfo
zones_differ(tz1, tz2) == tz1 # "naive" /\ tz2 # "naive" /\ tz1 # tz2

compare_raises_mut(tz1, tz2) == FALSE

\* end_dt < start_dt raises TypeError: one datetime is naive, the other aware
compare_raises(tz1, tz2) == (tz1 = "naive") # (tz2 = "naive")

is_reversed_mut(start_t, end_t) == FALSE

\* end_dt < start_dt, for two datetimes Python can compare
is_reversed(start_t, end_t) == end_t < start_t

\* seconds in one tick of the scaled calendar (a day has 86400)
SecondsPerTick == 86400 \div TicksPerDay

round_hours_mut(seconds, micros) == seconds \div 36

\* round(total_seconds / 3600.0 + 1e-9, 2) in hundredths, for a delta of
\* `seconds` s and `micros` us: a hundredth is 36 s, 1e-9 h is 3.6 us
round_hours(seconds, micros) ==
    LET q == seconds \div 36
        r == seconds % 36
        n == 10 * (r * 1000000 + micros) + 36
    IN  q + (IF n >= 180000000 THEN 1 ELSE 0)

\* the result record of a calculate_hours call
calc_result(start, end, val, logged, delta_called) ==
    [op |-> "calculate_hours", val |-> val, args |-> <<start, end>>,
     logged |-> logged, delta_called |-> delta_called]

calculate_hours(start, end) ==
    IF is_missing(start) \/ is_missing(end)
    THEN calc_result(start, end, 0, 0, FALSE)
    ELSE LET start_dt == to_datetime(start)
             end_dt == to_datetime(end)
         IN  IF ~start_dt.ok \/ ~end_dt.ok
             THEN calc_result(start, end, 0, 1, FALSE)
             ELSE IF zones_differ(start_dt.tz, end_dt.tz)
             THEN calc_result(start, end, 0, 1, FALSE)
             ELSE IF compare_raises(start_dt.tz, end_dt.tz)
             THEN calc_result(start, end, 0, 1, FALSE)
             ELSE IF is_reversed(start_dt.t, end_dt.t)
             THEN calc_result(start, end, 0, 1, FALSE)
             ELSE LET delta == business_hours_delta(start_dt.t, end_dt.t)
                  IN  calc_result(start, end,
                                  round_hours(delta * SecondsPerTick, 0), 0, TRUE)

\* a naive datetime object
Naive(t) == [kind |-> "datetime", t |-> t, tz |-> "naive"]

----------------------------------------------------------------------------
(* Spec: the API, one call at a time *)

\* OrderScraperApp.config as load_config_file() or {} leaves it, nothing saved
SettingsIdle == config = {} /\ saved_config = {}

\* the tables as connect_db creates them
connect_db == steps_table = {} /\ print_file = {}

\* a new database, no call of record_print_file_start yet
DbIdle == connect_db /\ now = 0 /\ first_call = {}

\* no timedelta is being converted
RoundIdle == timedelta = [seconds |-> 0, micros |-> 0]

\* the job numbers of the order queue
Jobs == 1..NumJobs

\* a refresh_orders call: how it ended, the collaborators it called in
\* order, the list parse_queue returned, and how often
\* db.record_print_file_start was called for each job
refresh_result(outcome, calls, queue, record_calls) ==
    [outcome |-> outcome, calls |-> calls, queue |-> queue, record_calls |-> record_calls]

\* no call of db.record_print_file_start
NoRecords == [j \in Jobs |-> 0]

\* OrderScraperApp.__init__: the queue bookkeeping before any refresh
app_init ==
    /\ last_queue = {}
    /\ seen_queue_jobs = {}
    /\ refresh = refresh_result("none", <<>>, <<>>, NoRecords)
    /\ fetched = {}
    /\ clean = TRUE

\* an OrderScraperApp constructed without credentials, before any refresh
AppIdle == credentials = FALSE /\ app_init

ConcIdle ==
    /\ wpc = "idle" /\ wStart = 0 /\ wEnd = 0 /\ wOld = <<DefaultStart, DefaultEnd>>
    /\ sets = 0
    /\ bpc = "idle" /\ current = 0 /\ segments = <<>> /\ start_time = 0
    /\ snap = <<DefaultStart, DefaultEnd>> /\ reads = {}

Init ==
    /\ cfgStart = DefaultStart
    /\ cfgEnd = DefaultEnd
    /\ argStart \in Times
    /\ argEnd \in Times
    /\ ret = [op |-> "none", val |-> "None", args |-> <<>>]
    /\ ConcIdle
    /\ SettingsIdle
    /\ DbIdle
    /\ RoundIdle
    /\ AppIdle

SetBusinessHours ==
    /\ \E a \in Slots, b \in Slots : set_business_hours(a, b)
    /\ UNCHANGED <<argStart, argEnd, concVars, extVars>>

GetBusinessStart ==
    /\ ret' = [op |-> "get_business_start", val |-> get_business_start, args |-> <<>>]
    /\ UNCHANGED <<cfgStart, cfgEnd, argStart, argEnd, concVars, extVars>>

GetBusinessEnd ==
    /\ ret' = [op |-> "get_business_end", val |-> get_business_end, args |-> <<>>]
    /\ UNCHANGED <<cfgStart, cfgEnd, argStart, argEnd, concVars, extVars>>

BusinessHoursBreakdown ==
    /\ ret' = [op |-> "business_hours_breakdown",
               val |-> business_hours_breakdown(argStart, argEnd),
               args |-> <<argStart, argEnd>>]
    /\ UNCHANGED <<cfgStart, cfgEnd, argStart, argEnd, concVars, extVars>>

BusinessHoursDelta ==
    /\ ret' = [op |-> "business_hours_delta",
               val |-> business_hours_delta(argStart, argEnd),
               args |-> <<argStart, argEnd>>]
    /\ UNCHANGED <<cfgStart, cfgEnd, argStart, argEnd, concVars, extVars>>

HoursBreakdown ==
    /\ ret' = [op |-> "hours_breakdown",
               val |-> hours_breakdown(argStart, argEnd),
               args |-> <<argStart, argEnd>>]
    /\ UNCHANGED <<cfgStart, cfgEnd, argStart, argEnd, concVars, extVars>>

\* calculate_hours on two naive datetime objects
CalculateHours ==
    /\ ret' = calculate_hours(Naive(argStart), Naive(argEnd))
    /\ UNCHANGED <<cfgStart, cfgEnd, argStart, argEnd, concVars, extVars>>

Next ==
    \/ SetBusinessHours
    \/ GetBusinessStart
    \/ GetBusinessEnd
    \/ BusinessHoursBreakdown
    \/ BusinessHoursDelta
    \/ HoursBreakdown
    \/ CalculateHours

Spec == Init /\ [][Next]_vars

----------------------------------------------------------------------------
(* SpecConc: set_business_hours in the settings thread, and                *)
(* business_hours_breakdown(argStart, argEnd) in a reporting thread.  An   *)
(* action is the code between two accesses to _CONFIG, with the access     *)
(* that ends it; the interpreter may switch threads between any two.       *)

seqVars == <<argStart, argEnd>>

\* line 58-59: the guard; a rejected call raises before it touches _CONFIG
SetEnter ==
    /\ wpc = "idle"
    /\ sets < MaxSets
    /\ sets' = sets + 1
    /\ \E a \in Slots, b \in Slots :
          /\ wStart' = a
          /\ wEnd' = b
          /\ wOld' = <<cfgStart, cfgEnd>>
          /\ wpc' = IF invalid_hours(a, b) THEN "idle" ELSE "line60"
    /\ UNCHANGED <<cfgStart, cfgEnd, ret, seqVars, extVars, bpc, current, segments,
                   start_time, snap, reads>>

\* line 60: _CONFIG.start = start
SetWriteStart ==
    /\ wpc = "line60"
    /\ cfgStart' = wStart
    /\ wpc' = "line61"
    /\ UNCHANGED <<cfgEnd, ret, seqVars, extVars, wStart, wEnd, wOld, sets, bpc, current,
                   segments, start_time, snap, reads>>

\* line 61: _CONFIG.end = end
SetWriteEnd ==
    /\ wpc = "line61"
    /\ cfgEnd' = wEnd
    /\ wpc' = "idle"
    /\ UNCHANGED <<cfgStart, ret, seqVars, extVars, wStart, wEnd, wOld, sets, bpc, current,
                   segments, start_time, snap, reads>>

\* line 108-109: the call is entered
BreakdownEnter ==
    /\ bpc = "idle"
    /\ segments' = <<>>
    /\ current' = argStart
    /\ snap' = <<cfgStart, cfgEnd>>
    /\ reads' = {}
    /\ bpc' = "line110"
    /\ UNCHANGED <<cfgStart, cfgEnd, ret, seqVars, extVars, wpc, wStart, wEnd, wOld, sets,
                   start_time>>

\* line 110-116: the loop test, the weekend skip, the read of _CONFIG.start
BreakdownLoop ==
    /\ bpc = "line110"
    /\ IF ~(current < argEnd)
       THEN /\ bpc' = "returned"
            /\ ret' = [op |-> "business_hours_breakdown", val |-> segments,
                       args |-> <<argStart, argEnd>>]
            /\ UNCHANGED <<current, start_time, reads>>
       ELSE IF is_weekend(current)
       THEN /\ current' = next_business_start(current)
            /\ reads' = reads \cup {<<"start", get_business_start>>}
            /\ UNCHANGED <<bpc, ret, start_time>>
       ELSE /\ start_time' = get_business_start
            /\ reads' = reads \cup {<<"start", get_business_start>>}
            /\ bpc' = "line117"
            /\ UNCHANGED <<current, ret>>
    /\ UNCHANGED <<cfgStart, cfgEnd, seqVars, extVars, wpc, wStart, wEnd, wOld, sets,
                   segments, snap>>

\* line 117-132: the read of _CONFIG.end, the snap to day_start, the segment
BreakdownDay ==
    /\ bpc = "line117"
    /\ LET end_time == get_business_end
           day_start == replace(current, start_time)
           day_end == replace(current, end_time)
           cur2 == IF current < day_start THEN day_start ELSE current
       IN  /\ current' = cur2
           /\ segments' = IF cur2 >= day_end THEN segments
                          ELSE Append(segments, <<cur2, min(day_end, argEnd)>>)
    /\ reads' = reads \cup {<<"end", get_business_end>>}
    /\ bpc' = "advance"
    /\ UNCHANGED <<cfgStart, cfgEnd, ret, seqVars, extVars, wpc, wStart, wEnd, wOld, sets,
                   start_time, snap>>

\* line 128 and 133: current = _next_business_start(current)
BreakdownAdvance ==
    /\ bpc = "advance"
    /\ current' = next_business_start(current)
    /\ reads' = reads \cup {<<"start", get_business_start>>}
    /\ bpc' = "line110"
    /\ UNCHANGED <<cfgStart, cfgEnd, ret, seqVars, extVars, wpc, wStart, wEnd, wOld, sets,
                   segments, start_time, snap>>

NextConc ==
    \/ SetEnter
    \/ SetWriteStart
    \/ SetWriteEnd
    \/ BreakdownEnter
    \/ BreakdownLoop
    \/ BreakdownDay
    \/ BreakdownAdvance

SpecConc == Init /\ [][NextConc]_vars

----------------------------------------------------------------------------
(* SpecLoop: one business_hours_breakdown call, step by step, in a single  *)
(* thread: the configuration is any pair set_business_hours accepts and    *)
(* stays as it is during the call.  A step that can be taken is taken.     *)

InitLoop ==
    /\ cfgStart \in Slots
    /\ cfgEnd \in Slots
    /\ ~invalid_hours(cfgStart, cfgEnd)
    /\ argStart \in Times
    /\ argEnd \in Times
    /\ ret = [op |-> "none", val |-> "None", args |-> <<>>]
    /\ ConcIdle
    /\ SettingsIdle
    /\ DbIdle
    /\ RoundIdle
    /\ AppIdle

NextLoop ==
    \/ BreakdownEnter
    \/ BreakdownLoop
    \/ BreakdownDay
    \/ BreakdownAdvance

SpecLoop == InitLoop /\ [][NextLoop]_vars /\ WF_vars(NextLoop)

----------------------------------------------------------------------------
(* SpecApp: OrderScraperApp.refresh_orders (src/ui/order_app.py), one call *)
(* at a time.  The portal decides whether the login succeeds and which     *)
(* jobs the queue page lists; db.record_print_file_start may raise.        *)

\* the lists parse_queue can return: jobs in any order, repeats allowed
Queues == UNION {[1..n -> Jobs] : n \in 0..MaxQueueLen}

\* set(queue)
set(queue) == {queue[i] : i \in DOMAIN queue}

departed_mut(last, cur) == last

\* self.last_queue - current
departed(last, cur) == last \ cur

add_all_mut(seen, cur) == seen

\* for job in current: self.seen_queue_jobs.add(job)
add_all(seen, cur) == seen \cup cur

InitApp ==
    /\ cfgStart = DefaultStart
    /\ cfgEnd = DefaultEnd
    /\ argStart = 0
    /\ argEnd = 0
    /\ ret = [op |-> "none", val |-> "None", args |-> <<>>]
    /\ ConcIdle
    /\ SettingsIdle
    /\ DbIdle
    /\ RoundIdle
    /\ credentials \in BOOLEAN
    /\ app_init

\* lines 230-232: no credentials
RefreshWithoutCredentials ==
    /\ ~credentials
    /\ refresh' = refresh_result("prompt_login", <<"prompt_login">>, <<>>, NoRecords)
    /\ UNCHANGED <<last_queue, seen_queue_jobs, fetched, clean>>

RefreshLoginFailed_mut ==
    /\ credentials
    /\ refresh' = refresh_result("prompt_login",
           <<"login", "prompt_login", "fetch_orders", "parse_orders", "parse_queue">>,
           <<>>, NoRecords)
    /\ seen_queue_jobs' = seen_queue_jobs \ last_queue
    /\ last_queue' = {}
    /\ UNCHANGED <<fetched, clean>>

\* lines 233-236: the login is refused
RefreshLoginFailed ==
    /\ credentials
    /\ refresh' = refresh_result("prompt_login", <<"login", "prompt_login">>, <<>>, NoRecords)
    /\ UNCHANGED <<last_queue, seen_queue_jobs, fetched, clean>>

\* lines 233-247: the login succeeds and every database call returns
RefreshCompleted ==
    /\ credentials
    /\ \E queue \in Queues :
          LET cur == set(queue)
              gone == departed(last_queue, cur)
          IN  /\ refresh' = refresh_result("ok",
                     <<"login", "fetch_orders", "parse_orders", "parse_queue">>, queue,
                     [j \in Jobs |-> IF j \in gone /\ j \in seen_queue_jobs THEN 1 ELSE 0])
              /\ seen_queue_jobs' = add_all(seen_queue_jobs \ gone, cur)
              /\ last_queue' = cur
              /\ fetched' = cur
    /\ UNCHANGED clean

\* lines 233-242: db.record_print_file_start raises for job `failed`, after
\* the jobs in `done` went through the first loop
RefreshRaised ==
    /\ credentials
    /\ \E queue \in Queues :
          LET cur == set(queue)
              gone == departed(last_queue, cur)
          IN  \E failed \in gone \cap seen_queue_jobs :
              \E done \in SUBSET (gone \ {failed}) :
                  /\ refresh' = refresh_result("raised",
                         <<"login", "fetch_orders", "parse_orders", "parse_queue">>, queue,
                         [j \in Jobs |->
                             IF j = failed \/ (j \in done /\ j \in seen_queue_jobs)
                             THEN 1 ELSE 0])
                  /\ seen_queue_jobs' = seen_queue_jobs \ done
    /\ clean' = FALSE
    /\ UNCHANGED <<last_queue, fetched>>

RefreshOrders ==
    /\ \/ RefreshWithoutCredentials
       \/ RefreshLoginFailed
       \/ RefreshCompleted
       \/ RefreshRaised
    /\ UNCHANGED <<cfgStart, cfgEnd, argStart, argEnd, ret, concVars, timedelta, credentials,
                   dataVars>>

NextApp == RefreshOrders

SpecApp == InitApp /\ [][NextApp]_vars

----------------------------------------------------------------------------
(* SpecSettings: OrderScraperApp.update_business_hours                     *)
(* (src/ui/order_app.py), one call at a time, on every pair of texts the   *)
(* two entry fields can hold.  An hour of the day is a slot.               *)

\* the text of an entry field: an hour with its AM/PM mark, written without
\* or with a leading zero ("9AM", "09AM"), or a text that is no such hour
Entries ==
    {[kind |-> k, slot |-> h] : k \in {"hour", "padded"}, h \in Slots}
    \cup {[kind |-> "bad", slot |-> 0]}

\* datetime.strptime(text, "%I%p").time(), or the ValueError
strptime(text) ==
    IF text.kind = "bad" THEN [ok |-> FALSE, time |-> 0]
    ELSE [ok |-> TRUE, time |-> text.slot]

\* t.strftime("%I:%M%p").lstrip("0"): "9:00AM"
strftime(t) == [kind |-> "hour:minute", slot |-> t]

\* d[key] = value
dict_set(d, key, value) == {p \in d : p[1] # key} \cup {<<key, value>>}

\* the result record of an update_business_hours call
update_result(start_str, end_str, val, box, saves) ==
    [op |-> "update_business_hours", val |-> val, args |-> <<start_str, end_str>>,
     box |-> box, saves |-> saves]

update_business_hours_mut(start_str, end_str) ==
    LET start == strptime(start_str)
        end == strptime(end_str)
    IN  IF ~start.ok \/ ~end.ok
        THEN /\ ret' = update_result(start_str, end_str, "None", "showerror", 0)
             /\ UNCHANGED <<cfgStart, cfgEnd, config, saved_config>>
        ELSE /\ config' = dict_set(dict_set(config, "business_start", strftime(start.time)),
                                   "business_end", strftime(end.time))
             /\ IF invalid_hours(start.time, end.time)
                THEN /\ ret' = update_result(start_str, end_str, "ValueError", "none", 0)
                     /\ UNCHANGED <<cfgStart, cfgEnd, saved_config>>
                ELSE /\ cfgStart' = start.time
                     /\ cfgEnd' = end.time
                     /\ saved_config' = config'
                     /\ ret' = update_result(start_str, end_str, "None", "showinfo", 1)

\* update_business_hours, run to completion; time_utils.set_business_hours
\* raises through it
update_business_hours(start_str, end_str) ==
    LET start == strptime(start_str)
        end == strptime(end_str)
    IN  IF ~start.ok \/ ~end.ok
        THEN /\ ret' = update_result(start_str, end_str, "None", "showerror", 0)
             /\ UNCHANGED <<cfgStart, cfgEnd, config, saved_config>>
        ELSE IF invalid_hours(start.time, end.time)
        THEN /\ ret' = update_result(start_str, end_str, "ValueError", "none", 0)
             /\ UNCHANGED <<cfgStart, cfgEnd, config, saved_config>>
        ELSE /\ cfgStart' = start.time
             /\ cfgEnd' = end.time
             /\ config' = dict_set(dict_set(config, "business_start", strftime(start.time)),
                                   "business_end", strftime(end.time))
             /\ saved_config' = config'
             /\ ret' = update_result(start_str, end_str, "None", "showinfo", 1)

InitSettings ==
    /\ cfgStart = DefaultStart
    /\ cfgEnd = DefaultEnd
    /\ argStart = 0
    /\ argEnd = 0
    /\ ret = [op |-> "none", val |-> "None", args |-> <<>>]
    /\ ConcIdle
    /\ SettingsIdle
    /\ DbIdle
    /\ RoundIdle
    /\ AppIdle

UpdateBusinessHours ==
    /\ \E start_str \in Entries, end_str \in Entries :
          update_business_hours(start_str, end_str)
    /\ UNCHANGED <<argStart, argEnd, concVars, timedelta, credentials, last_queue,
                   seen_queue_jobs, refresh, fetched, clean, steps_table, print_file,
                   now, first_call>>

NextSettings == UpdateBusinessHours

SpecSettings == InitSettings /\ [][NextSettings]_vars

----------------------------------------------------------------------------
(* SpecLog: db.log_order (src/data/db.py), one call at a time, on a        *)
(* database connect_db has just created.                                   *)

Orders == {"100", "101"}

StepNames == {"Print File", "Cut"}

\* the datetimes of the steps, as ts.isoformat() writes them
Timestamps == {"2024-01-08T08:00:00", "2024-01-08T09:00:00"}

\* the values of the parameter steps: (step name, timestamp) pairs
StepLists == UNION {[1..n -> StepNames \X Timestamps] : n \in 0..MaxSteps}

\* the steps table holds a row for (order_number, step)
stored(table, order_number, step) ==
    \E r \in table : r.order_number = order_number /\ r.step = step

insert_or_ignore_mut(table, row) ==
    {r \in table : ~(r.order_number = row.order_number /\ r.step = row.step)} \cup {row}

\* INSERT OR IGNORE INTO steps under UNIQUE(order_number, step)
insert_or_ignore(table, row) ==
    IF stored(table, row.order_number, row.step) THEN table ELSE table \cup {row}

\* the for loop of log_order from the i-th step on: the table and new_step
\* when it ends
RECURSIVE for_steps(_, _, _, _, _, _)
for_steps(table, new_step, order_number, customer, steps, i) ==
    IF i > Len(steps) THEN [table |-> table, new_step |-> new_step]
    ELSE LET row == [order_number |-> order_number, customer |-> customer,
                     step |-> steps[i][1], ts |-> steps[i][2]]
             after == insert_or_ignore(table, row)
             rowcount == IF after = table THEN 0 ELSE 1
         IN  for_steps(after, new_step \/ rowcount # 0, order_number, customer, steps, i + 1)

\* log_order, run to completion; the call record keeps the step names
log_order(order_number, customer, steps) ==
    LET done == for_steps(steps_table, FALSE, order_number, customer, steps, 1)
    IN  /\ steps_table' = done.table
        /\ ret' = [op |-> "log_order", val |-> done.new_step,
                   args |-> <<order_number, customer>>,
                   steps |-> {steps[i][1] : i \in DOMAIN steps}]

InitLog ==
    /\ cfgStart = DefaultStart
    /\ cfgEnd = DefaultEnd
    /\ argStart = 0
    /\ argEnd = 0
    /\ ret = [op |-> "none", val |-> "None", args |-> <<>>]
    /\ ConcIdle
    /\ SettingsIdle
    /\ DbIdle
    /\ RoundIdle
    /\ AppIdle

LogOrder ==
    /\ \E order_number \in Orders, steps \in StepLists :
          log_order(order_number, "ACME", steps)
    /\ UNCHANGED <<cfgStart, cfgEnd, argStart, argEnd, concVars, timedelta, credentials,
                   last_queue, seen_queue_jobs, refresh, fetched, clean, config,
                   saved_config, print_file, now, first_call>>

NextLog == LogOrder

SpecLog == InitLog /\ [][NextLog]_vars

----------------------------------------------------------------------------
(* SpecPrint: db.record_print_file_start (src/data/db.py), one call at a   *)
(* time.  The clock never runs backwards.                                  *)

\* INSERT OR REPLACE INTO print_file under PRIMARY KEY order_number
insert_or_replace(table, row) ==
    {r \in table : r.order_number # row.order_number} \cup {row}

\* record_print_file_start at the time utcnow
record_print_file_start(order_number, utcnow) ==
    /\ print_file' = insert_or_replace(print_file,
                          [order_number |-> order_number, started_at |-> utcnow])
    /\ ret' = [op |-> "record_print_file_start", val |-> "None", args |-> <<order_number>>]

InitPrint ==
    /\ cfgStart = DefaultStart
    /\ cfgEnd = DefaultEnd
    /\ argStart = 0
    /\ argEnd = 0
    /\ ret = [op |-> "none", val |-> "None", args |-> <<>>]
    /\ ConcIdle
    /\ SettingsIdle
    /\ DbIdle
    /\ RoundIdle
    /\ AppIdle

RecordPrintFileStart ==
    /\ \E order_number \in Orders, utcnow \in now..MaxClock :
          /\ record_print_file_start(order_number, utcnow)
          /\ now' = utcnow
          /\ first_call' =
                IF \E f \in first_call : f.order_number = order_number
                THEN first_call
                ELSE first_call \cup {[order_number |-> order_number, at |-> utcnow]}
    /\ UNCHANGED <<cfgStart, cfgEnd, argStart, argEnd, concVars, timedelta, credentials,
                   last_queue, seen_queue_jobs, refresh, fetched, clean, config,
                   saved_config, steps_table>>

NextPrint == RecordPrintFileStart

SpecPrint == InitPrint /\ [][NextPrint]_vars

----------------------------------------------------------------------------
(* SpecCalc: one calculate_hours call on arguments of every form, under    *)
(* every configuration set_business_hours accepts.                         *)

\* the forms an argument takes: kind and tzinfo
Forms ==
    {<<k, "naive">> : k \in {"None", "str_empty", "other_falsy", "other_truthy",
                            "str_bad", "datetime", "str_iso", "str_legacy"}}
    \cup {<<"datetime", z>> : z \in AwareZones}
    \cup {<<"str_iso", z>> : z \in {"UTC", "+01:00"}}

\* the argument of form f for the wall-clock time t, when there is one:
\* a legacy string has no seconds
HasValue(f, t) == f[1] = "str_legacy" => t % TicksPerSlot = 0

Value(f, t) ==
    [kind |-> f[1],
     t |-> IF f[1] \in {"datetime", "str_iso", "str_legacy"} THEN t ELSE 0,
     tz |-> f[2]]

InitCalc ==
    /\ cfgStart \in Slots
    /\ cfgEnd \in Slots
    /\ ~invalid_hours(cfgStart, cfgEnd)
    /\ argStart \in Times
    /\ argEnd \in Times
    /\ ret = [op |-> "none", val |-> "None", args |-> <<>>]
    /\ ConcIdle
    /\ SettingsIdle
    /\ DbIdle
    /\ RoundIdle
    /\ AppIdle

CalculateHoursForms ==
    /\ ret.op = "none"
    /\ \E f1 \in Forms, f2 \in Forms :
          /\ HasValue(f1, argStart)
          /\ HasValue(f2, argEnd)
          /\ ret' = calculate_hours(Value(f1, argStart), Value(f2, argEnd))
    /\ UNCHANGED <<cfgStart, cfgEnd, argStart, argEnd, concVars, extVars>>

NextCalc == CalculateHoursForms

SpecCalc == InitCalc /\ [][NextCalc]_vars

----------------------------------------------------------------------------
(* SpecReport: the report helper _calc_hours (src/ui/order_app.py), one    *)
(* call on the start and end of a row: None or a string.  The offset       *)
(* +01:00 is one slot of the scaled day.                                   *)

\* the forms of a row's start and end
RowForms ==
    {<<k, "naive">> : k \in {"None", "str_empty", "str_bad", "str_iso", "str_legacy"}}
    \cup {<<"str_iso", z>> : z \in {"UTC", "+01:00"}}

\* datetime.fromisoformat(value): the datetime, or the exception raised
fromisoformat(v) ==
    CASE v.kind = "str_iso" -> [ok |-> TRUE, t |-> v.t, tz |-> v.tz]
      [] v.kind \in {"str_legacy", "str_bad", "str_empty"} -> [ok |-> FALSE, exc |-> "ValueError"]
      [] OTHER -> [ok |-> FALSE, exc |-> "TypeError"]

\* the wall-clock time, in the zone of start_dt, of the instant end_dt
in_zone_of(start_dt, end_dt) ==
    IF start_dt.tz = "naive" THEN end_dt.t
    ELSE end_dt.t - (utcoffset(end_dt.tz, end_dt.t) - utcoffset(start_dt.tz, start_dt.t))
                        * TicksPerSlot

\* the result record of a _calc_hours call: val in seconds of business
\* time (the code returns them divided by 3600), or the exception raised
report_result(start, end, val, raised) ==
    [op |-> "_calc_hours", val |-> val, args |-> <<start, end>>, raised |-> raised]

\* _calc_hours
calc_hours(start, end) ==
    IF is_missing(start) \/ is_missing(end)
    THEN report_result(start, end, 0, "no")
    ELSE LET start_dt == fromisoformat(start)
             end_dt == fromisoformat(end)
         IN  IF ~start_dt.ok
             THEN report_result(start, end, 0,
                                IF start_dt.exc = "ValueError" THEN "no" ELSE start_dt.exc)
             ELSE IF ~end_dt.ok
             THEN report_result(start, end, 0,
                                IF end_dt.exc = "ValueError" THEN "no" ELSE end_dt.exc)
             ELSE IF compare_raises(start_dt.tz, end_dt.tz)
             THEN report_result(start, end, 0, "TypeError")
             ELSE LET segs == business_hours_breakdown(start_dt.t,
                                                       in_zone_of(start_dt, end_dt))
                  IN  report_result(start, end, sum_segments(segs) * SecondsPerTick, "no")

CalcHours ==
    /\ ret.op = "none"
    /\ \E f1 \in RowForms, f2 \in RowForms :
          /\ HasValue(f1, argStart)
          /\ HasValue(f2, argEnd)
          /\ ret' = calc_hours(Value(f1, argStart), Value(f2, argEnd))
    /\ UNCHANGED <<cfgStart, cfgEnd, argStart, argEnd, concVars, extVars>>

NextReport == CalcHours

SpecReport == InitCalc /\ [][NextReport]_vars

----------------------------------------------------------------------------
(* SpecRound: the conversion of a timedelta into hours (lines 220-221), on *)
(* timedeltas with microseconds.  A timedelta is seconds + micros / 10^6   *)
(* with 0 <= micros < 10^6, as Python normalises it.                       *)

Deltas ==
    [seconds : 0..MaxSeconds,
     micros : (0..MaxMicros) \cup ((1000000 - MaxMicros)..999999)]

InitRound ==
    /\ cfgStart = DefaultStart
    /\ cfgEnd = DefaultEnd
    /\ argStart = 0
    /\ argEnd = 0
    /\ ret = [op |-> "none", val |-> "None", args |-> <<>>]
    /\ ConcIdle
    /\ SettingsIdle
    /\ DbIdle
    /\ timedelta \in Deltas
    /\ AppIdle

\* hours = delta.total_seconds() / 3600.0; return round(hours + 1e-9, 2)
RoundHours ==
    /\ ret' = [op |-> "round_hours",
               val |-> round_hours(timedelta.seconds, timedelta.micros),
               args |-> <<timedelta>>]
    /\ UNCHANGED <<cfgStart, cfgEnd, argStart, argEnd, concVars, extVars>>

NextRound == RoundHours

SpecRound == InitRound /\ [][NextRound]_vars

----------------------------------------------------------------------------
(* Vocabulary of the properties below.  The last call's arguments and       *)
(* result are in ret; the configuration it ran under is the stored one,     *)
(* because set_business_hours overwrites ret.                               *)

\* tick m is business time: a weekday, and inside the configured window
IsBusinessTick(m) ==
    /\ weekday(m) < 5
    /\ cfgStart * TicksPerSlot <= m % TicksPerDay
    /\ m % TicksPerDay < cfgEnd * TicksPerSlot

\* tick m lies in one of the segments
Covered(m, segs) == \E i \in DOMAIN segs : segs[i][1] <= m /\ m < segs[i][2]

\* [s, e) holds no business tick
NoBusinessTime(s, e) == \A m \in Times : (s <= m /\ m < e) => ~IsBusinessTick(m)

\* the midnight that starts the Monday after dt's week
MondayAfter(dt) == (DayOf(dt) - weekday(dt) + 7) * TicksPerDay

\* s < e, s on a Saturday or Sunday, e no later than the following Monday 00:00
WeekendOnly(s, e) == s < e /\ weekday(s) >= 5 /\ e <= MondayAfter(s)

\* the lengths of the first n segments, added up
RECURSIVE SegmentTotal(_, _)
SegmentTotal(segs, n) ==
    IF n = 0 THEN 0 ELSE SegmentTotal(segs, n - 1) + (segs[n][2] - segs[n][1])

Returned(op) == ret.op = op

\* v is None or the empty string
Absent(v) == v.kind \in {"None", "str_empty"}

\* v is a malformed string or a value of an unsupported type
Unparseable(v) == v.kind \in {"str_bad", "other_falsy", "other_truthy"}

\* v is a datetime or a string that reads as one
Parseable(v) == v.kind \in {"datetime", "str_iso", "str_legacy"}

\* v carries a UTC offset
Aware(v) == Parseable(v) /\ to_datetime(v).tz # "naive"

----------------------------------------------------------------------------
(* C1: business_hours_breakdown(s, e) returns exactly the maximal          *)
(* contiguous sub-intervals of [s, e) inside the business window on        *)
(* weekdays: every returned segment is a non-empty sub-interval of [s, e), *)
(* a tick is covered by a segment iff it lies in [s, e) and is business    *)
(* time, and no two segments touch.                                        *)
C1_ExactBusinessSegments ==
    Returned("business_hours_breakdown") =>
        LET segs == ret.val
            s == ret.args[1]
            e == ret.args[2]
        IN  /\ \A i \in DOMAIN segs :
                  segs[i][1] < segs[i][2] /\ s <= segs[i][1] /\ segs[i][2] <= e
            /\ \A m \in Times :
                  Covered(m, segs) <=> (s <= m /\ m < e /\ IsBusinessTick(m))
            /\ \A i, j \in DOMAIN segs : segs[i][2] # segs[j][1]

(* C2: business_hours_delta(s, e) is non-negative, and at most e - s when  *)
(* s < e.                                                                  *)
C2_DeltaBounded ==
    Returned("business_hours_delta") =>
        /\ ret.val >= 0
        /\ (ret.args[1] < ret.args[2] => ret.val <= ret.args[2] - ret.args[1])

(* C3: every returned segment has segStart < segEnd with both ends on one  *)
(* calendar day, and the segments come in strictly increasing order, at    *)
(* most one per calendar day.                                              *)
C3_SegmentsWellFormed ==
    Returned("business_hours_breakdown") =>
        LET segs == ret.val
        IN  /\ \A i \in DOMAIN segs :
                  segs[i][1] < segs[i][2] /\ DayOf(segs[i][1]) = DayOf(segs[i][2])
            /\ \A i \in DOMAIN segs :
                  (i + 1) \in DOMAIN segs =>
                      /\ segs[i][2] <= segs[i + 1][1]
                      /\ DayOf(segs[i][1]) < DayOf(segs[i + 1][1])

(* C4: business_hours_breakdown(s, e) is the empty sequence when s >= e    *)
(* and when no instant of [s, e) is business time.                         *)
C4_EmptyWithoutBusinessTime ==
    Returned("business_hours_breakdown") =>
        ((ret.args[1] >= ret.args[2] \/ NoBusinessTime(ret.args[1], ret.args[2]))
            => ret.val = <<>>)

(* C7: set_business_hours(a, b) with a >= b raises and leaves both fields  *)
(* of the configuration as they were; the stored configuration has         *)
(* start < end after every sequence of completed calls.                    *)
C7_InvalidHoursRejected ==
    /\ [](cfgStart < cfgEnd)
    /\ [][(ret'.op = "set_business_hours" /\ ret'.args[1] >= ret'.args[2])
            => (ret'.val = "ValueError" /\ cfgStart' = cfgStart /\ cfgEnd' = cfgEnd)]_vars

\* a rejected call after an accepted one: the accepted pair is still stored
C7_Witness ==
    /\ Returned("set_business_hours")
    /\ ret.val = "ValueError"
    /\ <<cfgStart, cfgEnd>> # <<DefaultStart, DefaultEnd>>

(* C8: the segment lengths of business_hours_breakdown(s, e) add up to     *)
(* business_hours_delta(s, e), for s < e and for s >= e: a                 *)
(* business_hours_delta call that follows a business_hours_breakdown call  *)
(* on the same arguments returns the sum of that call's segments.          *)
C8_DeltaIsSegmentSum ==
    [][(ret.op = "business_hours_breakdown" /\ ret'.op = "business_hours_delta")
        => ret'.val = SegmentTotal(ret.val, Len(ret.val))]_vars

\* a delta over two segments, Friday's and Monday's
C8_Witness ==
    /\ Returned("business_hours_delta")
    /\ weekday(ret.args[1]) = 4
    /\ weekday(ret.args[2]) = 0
    /\ IsBusinessTick(ret.args[1])
    /\ IsBusinessTick(ret.args[2] - 1)
    /\ ret.val > 0

(* C9, as stated: for all (s, e), hours_breakdown(s, e) is                 *)
(* (business_hours_delta(s, e), (e - s) - business_hours_delta(s, e)),     *)
(* and its two components add up to e - s.                                 *)
C9_Original ==
    Returned("hours_breakdown") =>
        LET s == ret.args[1]
            e == ret.args[2]
            d == business_hours_delta(s, e)
        IN  /\ ret.val = <<d, (e - s) - d>>
            /\ ret.val[1] + ret.val[2] = e - s

(* C9, amended: the same for s <= e.  An hours_breakdown call that follows *)
(* a business_hours_delta call on the same arguments returns that delta    *)
(* and the rest of e - s.                                                  *)
C9_Amended ==
    /\ []((Returned("hours_breakdown") /\ ret.args[1] <= ret.args[2])
            => ret.val[1] + ret.val[2] = ret.args[2] - ret.args[1])
    /\ [][(ret.op = "business_hours_delta" /\ ret'.op = "hours_breakdown"
            /\ ret'.args[1] <= ret'.args[2])
            => ret'.val = <<ret.val, (ret'.args[2] - ret'.args[1]) - ret.val>>]_vars

\* an interval with business time and time after hours
C9_Witness ==
    /\ Returned("hours_breakdown")
    /\ ret.args[1] < ret.args[2]
    /\ ret.val[1] > 0
    /\ ret.val[2] > 0

(* C10: for s < e inside one Saturday-Sunday weekend, up to the following  *)
(* Monday 00:00, business_hours_breakdown is empty, business_hours_delta   *)
(* is zero and hours_breakdown is (0, e - s).                              *)
C10_WeekendIsAfterHours ==
    (ret.op \in {"business_hours_breakdown", "business_hours_delta", "hours_breakdown"}
        /\ WeekendOnly(ret.args[1], ret.args[2])) =>
        /\ Returned("business_hours_breakdown") => ret.val = <<>>
        /\ Returned("business_hours_delta") => ret.val = 0
        /\ Returned("hours_breakdown") => ret.val = <<0, ret.args[2] - ret.args[1]>>

\* the whole weekend: Saturday 00:00 to Monday 00:00
C10_Witness ==
    /\ Returned("hours_breakdown")
    /\ weekday(ret.args[1]) = 5
    /\ ret.args[1] % TicksPerDay = 0
    /\ ret.args[2] = MondayAfter(ret.args[1])
    /\ ret.val = <<0, 2 * TicksPerDay>>

(* C5: while set_business_hours runs beside readers, no reader observes a  *)
(* pair with start >= end, or a pair made of the start of one published    *)
(* configuration and the end of another: at every instant the pair stored  *)
(* in _CONFIG, which is what a reader then reads, is a valid one, and      *)
(* during a call it is the pair stored before the call or the pair being   *)
(* set.                                                                    *)
C5_NoTornConfiguration ==
    /\ cfgStart < cfgEnd
    /\ wpc # "idle" => <<cfgStart, cfgEnd>> \in {wOld, <<wStart, wEnd>>}

(* C6: one call of business_hours_breakdown uses one configuration         *)
(* snapshot, taken when the call starts: every value it reads from the     *)
(* configuration is that of the pair stored at its start, also when        *)
(* set_business_hours completes while the loop runs.                       *)
C6_OneSnapshotPerCall ==
    \A r \in reads :
        r[2] = (IF r[1] = "start" THEN snap[1] ELSE snap[2])

----------------------------------------------------------------------------
\* s lies on a Friday and e on the Monday that follows it
FridayToMonday(s, e) == weekday(s) = 4 /\ DayOf(e) = DayOf(s) + 3

\* the two segments of a Friday-to-Monday interval
FridayMondaySegments(s, e) ==
    << <<s, replace(s, cfgEnd)>>, <<replace(e, cfgStart), e>> >>

(* C11, as stated: for every interval that starts on a Friday inside the   *)
(* business window and ends on the following Monday inside the business    *)
(* window, business_hours_breakdown returns exactly the two segments       *)
(* (start, Friday business end) and (Monday business start, end), and      *)
(* business_hours_delta is the sum of their lengths.                       *)
C11_Original ==
    LET s == ret.args[1]
        e == ret.args[2]
    IN  ((Returned("business_hours_breakdown") \/ Returned("business_hours_delta"))
            /\ FridayToMonday(s, e) /\ IsBusinessTick(s) /\ IsBusinessTick(e)) =>
            /\ Returned("business_hours_breakdown") => ret.val = FridayMondaySegments(s, e)
            /\ Returned("business_hours_delta") =>
                  ret.val = (replace(s, cfgEnd) - s) + (e - replace(e, cfgStart))

(* C11, amended: the same for an end that lies inside the window and       *)
(* after the business start of the Monday.                                 *)
C11_Amended ==
    LET s == ret.args[1]
        e == ret.args[2]
    IN  ((Returned("business_hours_breakdown") \/ Returned("business_hours_delta"))
            /\ FridayToMonday(s, e) /\ IsBusinessTick(s) /\ IsBusinessTick(e)
            /\ replace(e, cfgStart) < e) =>
            /\ Returned("business_hours_breakdown") => ret.val = FridayMondaySegments(s, e)
            /\ Returned("business_hours_delta") =>
                  ret.val = (replace(s, cfgEnd) - s) + (e - replace(e, cfgStart))

\* Friday inside the window to Monday inside the window: two segments
C11_Witness ==
    /\ Returned("business_hours_breakdown")
    /\ FridayToMonday(ret.args[1], ret.args[2])
    /\ IsBusinessTick(ret.args[1])
    /\ IsBusinessTick(ret.args[2])
    /\ replace(ret.args[2], cfgStart) < ret.args[2]
    /\ Len(ret.val) = 2

----------------------------------------------------------------------------
(* C12: the value calculate_hours returns is a whole number of hundredths  *)
(* of an hour, never negative, and at most 24 hours for each calendar day  *)
(* the interval touches.                                                   *)
C12_HoursInRange ==
    Returned("calculate_hours") =>
        LET s == ret.args[1]
            e == ret.args[2]
        IN  /\ ret.val \in Int
            /\ ret.val >= 0
            /\ (Parseable(s) /\ Parseable(e) /\ s.t <= e.t) =>
                  ret.val <= 2400 * (DayOf(e.t) - DayOf(s.t) + 1)

(* C14: calculate_hours returns a number for every pair of arguments, and  *)
(* when neither argument is None or empty and one of them is a malformed   *)
(* string or a value of an unsupported type, it returns 0.0 and logs one   *)
(* error.                                                                  *)
C14_FailuresLogged ==
    Returned("calculate_hours") =>
        LET s == ret.args[1]
            e == ret.args[2]
        IN  /\ ret.val \in Int
            /\ (~Absent(s) /\ ~Absent(e) /\ (Unparseable(s) \/ Unparseable(e))) =>
                  (ret.val = 0 /\ ret.logged = 1)

(* C15: when both arguments resolve to datetimes and the end precedes the  *)
(* start, calculate_hours logs an error and returns 0.0, for strings and   *)
(* for datetime objects.                                                   *)
C15_ReversedRangeLogged ==
    Returned("calculate_hours") =>
        LET s == ret.args[1]
            e == ret.args[2]
        IN  (Parseable(s) /\ Parseable(e) /\ e.t < s.t) =>
                (ret.val = 0 /\ ret.logged = 1)

\* a reversed pair of naive ISO strings
C15_Witness ==
    /\ Returned("calculate_hours")
    /\ ret.args[1].kind = "str_iso" /\ ret.args[2].kind = "str_iso"
    /\ ret.args[1].tz = "naive" /\ ret.args[2].tz = "naive"
    /\ ret.args[2].t < ret.args[1].t
    /\ ret.val = 0 /\ ret.logged = 1

(* C16, as stated: when both arguments carry a UTC offset and the offsets  *)
(* differ, calculate_hours logs an error and returns 0.0 without calling   *)
(* business_hours_delta; when both carry the same offset, or neither       *)
(* carries one, and start <= end, the duration is computed.                *)
C16_Original ==
    Returned("calculate_hours") =>
        LET s == ret.args[1]
            e == ret.args[2]
            os == utcoffset(to_datetime(s).tz, s.t)
            oe == utcoffset(to_datetime(e).tz, e.t)
        IN  /\ (Aware(s) /\ Aware(e) /\ os # oe) =>
                  (ret.val = 0 /\ ret.logged = 1 /\ ~ret.delta_called)
            /\ (Aware(s) /\ Aware(e) /\ os = oe /\ s.t <= e.t) =>
                  (ret.delta_called /\ ret.logged = 0)
            /\ (Parseable(s) /\ Parseable(e) /\ ~Aware(s) /\ ~Aware(e) /\ s.t <= e.t) =>
                  (ret.delta_called /\ ret.logged = 0)

(* C16, amended: the same with the tzinfo objects compared in place of the *)
(* offsets: two aware arguments whose tzinfo objects are unequal give 0.0, *)
(* an error log and no business_hours_delta call; two whose tzinfo objects *)
(* are equal, and two naive ones, give the computed duration when          *)
(* start <= end.                                                           *)
C16_Amended ==
    Returned("calculate_hours") =>
        LET s == ret.args[1]
            e == ret.args[2]
            zs == to_datetime(s).tz
            ze == to_datetime(e).tz
        IN  /\ (Aware(s) /\ Aware(e) /\ zs # ze) =>
                  (ret.val = 0 /\ ret.logged = 1 /\ ~ret.delta_called)
            /\ (Aware(s) /\ Aware(e) /\ zs = ze /\ s.t <= e.t) =>
                  (ret.delta_called /\ ret.logged = 0)
            /\ (Parseable(s) /\ Parseable(e) /\ ~Aware(s) /\ ~Aware(e) /\ s.t <= e.t) =>
                  (ret.delta_called /\ ret.logged = 0)

\* UTC against +01:00, in order: rejected before any duration is computed
C16_Witness ==
    /\ Returned("calculate_hours")
    /\ ret.args[1].kind = "datetime" /\ ret.args[1].tz = "UTC"
    /\ ret.args[2].kind = "datetime" /\ ret.args[2].tz = "+01:00"
    /\ ret.args[1].t < ret.args[2].t
    /\ ret.val = 0 /\ ret.logged = 1 /\ ~ret.delta_called

(* C17: when either argument is None or the empty string, calculate_hours  *)
(* returns 0.0 and logs nothing, whatever the other argument is.           *)
C17_MissingIsSilent ==
    Returned("calculate_hours") =>
        ((Absent(ret.args[1]) \/ Absent(ret.args[2])) =>
            (ret.val = 0 /\ ret.logged = 0))

\* an empty string beside a malformed one
C17_Witness ==
    /\ Returned("calculate_hours")
    /\ ret.args[1].kind = "str_bad"
    /\ ret.args[2].kind = "str_empty"
    /\ ret.val = 0 /\ ret.logged = 0

----------------------------------------------------------------------------
\* a timedelta in microseconds
TotalMicros(d) == d.seconds * 1000000 + d.micros

\* us microseconds in hundredths of an hour (36 * 10^6 us each), rounded to
\* the nearest hundredth, a half rounded up
HalfUp(us) == (us + 18000000) \div 36000000

(* C13, as stated: the business duration is returned in hours rounded to   *)
(* two decimal places, a value exactly on a .xx5 boundary rounded up.      *)
C13_Original ==
    Returned("round_hours") => ret.val = HalfUp(TotalMicros(ret.args[1]))

(* C13, amended: the business duration plus 1e-9 hours is rounded to two   *)
(* decimal places.  That is the duration rounded to the nearest hundredth  *)
(* with a half rounded up, except that a duration less than 3.6            *)
(* microseconds below a .xx5 boundary is rounded up as well.               *)
C13_Amended ==
    Returned("round_hours") =>
        LET us == TotalMicros(ret.args[1])
            below == 18000000 - (us % 36000000)
        IN  ret.val = IF below \in 1..3 THEN HalfUp(us) + 1 ELSE HalfUp(us)

\* 18 seconds, exactly 0.005 hours, become 0.01
C13_Witness ==
    /\ Returned("round_hours")
    /\ ret.args[1] = [seconds |-> 18, micros |-> 0]
    /\ ret.val = 1

----------------------------------------------------------------------------
\* the number of ticks of [s, e) that lie on a weekday inside the window
\* from slot a to slot b
TicksInWindow(s, e, a, b) ==
    Cardinality({m \in s..(e - 1) :
                    /\ weekday(m) < 5
                    /\ a * TicksPerSlot <= m % TicksPerDay
                    /\ m % TicksPerDay < b * TicksPerSlot})

\* s and e lie on one weekday, e no later than its business start: the
\* inputs of the reversed segment of C1
BeforeOpening(s, e) ==
    DayOf(s) = DayOf(e) /\ weekday(s) < 5 /\ e <= replace(s, cfgStart)

\* the last call was a set_business_hours that did not raise
SetSucceeded == ret.op = "set_business_hours" /\ ret.val # "ValueError"

----------------------------------------------------------------------------
\* the loop body is running, or about to run, on the day of current
InLoopBody == (bpc = "line110" /\ current < argEnd) \/ bpc \in {"line117", "advance"}

\* a step that ends an iteration of the while loop
IterationEnds ==
    \/ bpc = "line110" /\ bpc' = "line110"
    \/ bpc = "advance" /\ bpc' = "line110"

(* C19: business_hours_breakdown returns for every input and every valid   *)
(* configuration.  An iteration of its loop runs on one calendar day, not  *)
(* before start's date and not after end's date, and ends with the cursor  *)
(* moved forward to the business start of the next calendar day, so no     *)
(* day sees two iterations.                                                *)
C19_LoopTerminates ==
    /\ <>(bpc = "returned")
    /\ [](InLoopBody =>
            (DayOf(argStart) <= DayOf(current) /\ DayOf(current) <= DayOf(argEnd)))
    /\ [][bpc = "line117" => (DayOf(current') = DayOf(current) /\ current' >= current)]_vars
    /\ [][IterationEnds =>
            /\ current' > current
            /\ DayOf(current') = DayOf(current) + 1
            /\ current' = replace(current', cfgStart)]_vars

\* a call from a Friday to the Monday after it has returned two segments,
\* the cursor a day past end's date
C19_Witness ==
    /\ bpc = "returned"
    /\ weekday(argStart) = 4
    /\ DayOf(argEnd) = DayOf(argStart) + 3
    /\ Len(segments) = 2
    /\ DayOf(current) = DayOf(argEnd) + 1

----------------------------------------------------------------------------
(* C20: in a refresh_orders call that completes, with no earlier call      *)
(* having raised, db.record_print_file_start is called once for every job  *)
(* that was in the queue fetched by the previous completed refresh and is  *)
(* not in the queue fetched now, and is not called for any other job.      *)
C20_RecordOnDeparture ==
    [][(clean' /\ refresh'.outcome = "ok") =>
        \A j \in Jobs :
            refresh'.record_calls[j] =
                IF j \in fetched /\ j \notin set(refresh'.queue) THEN 1 ELSE 0]_vars

\* a refresh in which one job left the queue and was recorded while
\* another job is listed
C20_Witness ==
    /\ clean
    /\ refresh.outcome = "ok"
    /\ \E j \in Jobs : refresh.record_calls[j] = 1
    /\ \E k \in Jobs : k \in last_queue /\ refresh.record_calls[k] = 0

----------------------------------------------------------------------------
\* how often collaborator c was called, among the first n calls of a refresh
RECURSIVE CallCount(_, _, _)
CallCount(calls, c, n) ==
    IF n = 0 THEN 0
    ELSE CallCount(calls, c, n - 1) + (IF calls[n] = c THEN 1 ELSE 0)

\* the calls that read the portal's pages
FetchCalls == {"fetch_orders", "parse_orders", "parse_queue"}

\* some call of the refresh read the portal's pages
Fetched(calls) == \E i \in DOMAIN calls : calls[i] \in FetchCalls

(* C21: a refresh_orders call with credentials calls login once, before    *)
(* anything else, and fetches and parses only when that login succeeded;   *)
(* a call without credentials does not call login.  When the login fails   *)
(* or the credentials are absent, prompt_login is called, nothing is       *)
(* fetched or parsed, and last_queue and seen_queue_jobs stay as they      *)
(* were.                                                                   *)
C21_LoginBeforeFetch ==
    /\ []((refresh.outcome # "none" /\ credentials) =>
            /\ refresh.calls[1] = "login"
            /\ CallCount(refresh.calls, "login", Len(refresh.calls)) = 1)
    /\ []((refresh.outcome # "none" /\ ~credentials) =>
            refresh.calls = <<"prompt_login">>)
    /\ [](Fetched(refresh.calls) =>
            /\ refresh.outcome \in {"ok", "raised"}
            /\ CallCount(refresh.calls, "prompt_login", Len(refresh.calls)) = 0
            /\ \A c \in FetchCalls : CallCount(refresh.calls, c, Len(refresh.calls)) = 1)
    /\ [](refresh.outcome = "prompt_login" =>
            /\ CallCount(refresh.calls, "prompt_login", Len(refresh.calls)) = 1
            /\ ~Fetched(refresh.calls))
    /\ [][refresh'.outcome = "prompt_login" =>
            (last_queue' = last_queue /\ seen_queue_jobs' = seen_queue_jobs)]_vars

\* a refused login after a refresh that left jobs in the queue
C21_Witness ==
    /\ refresh.outcome = "prompt_login"
    /\ refresh.calls = <<"login", "prompt_login">>
    /\ last_queue # {}
    /\ seen_queue_jobs = last_queue

C25_MixedAwareness ==
    Returned("calculate_hours") =>
        LET s == ret.args[1]
            e == ret.args[2]
        IN  (Parseable(s) /\ Parseable(e) /\ (Aware(s) # Aware(e))) =>
                /\ ~zones_differ(to_datetime(s).tz, to_datetime(e).tz)
                /\ ret.val = 0
                /\ ret.logged = 1
                /\ ~ret.delta_called

\* a naive start before an aware end
C25_Witness ==
    /\ Returned("calculate_hours")
    /\ ret.args[1].kind = "datetime" /\ ret.args[1].tz = "naive"
    /\ ret.args[2].kind = "str_iso" /\ ret.args[2].tz = "UTC"
    /\ ret.args[1].t < ret.args[2].t
    /\ ret.val = 0 /\ ret.logged = 1 /\ ~ret.delta_called

----------------------------------------------------------------------------
(* C28: in a result of business_hours_breakdown, a segment begins no       *)
(* earlier than the business start of its day and ends no later than the   *)
(* business end of that day; every segment but the first begins exactly at *)
(* the business start, and every segment but the last ends exactly at the  *)
(* business end.                                                           *)
C28_InnerSegmentsFullDays ==
    Returned("business_hours_breakdown") =>
        LET segs == ret.val
        IN  \A i \in DOMAIN segs :
                LET day_start == replace(segs[i][1], cfgStart)
                    day_end == replace(segs[i][1], cfgEnd)
                IN  /\ day_start <= segs[i][1]
                    /\ segs[i][2] <= day_end
                    /\ i > 1 => segs[i][1] = day_start
                    /\ i < Len(segs) => segs[i][2] = day_end

\* two segments: the first begins after business start, the last ends
\* before business end
C28_Witness ==
    /\ Returned("business_hours_breakdown")
    /\ Len(ret.val) = 2
    /\ ret.val[1][1] > replace(ret.val[1][1], cfgStart)
    /\ ret.val[1][2] = replace(ret.val[1][1], cfgEnd)
    /\ ret.val[2][1] = replace(ret.val[2][1], cfgStart)
    /\ ret.val[2][2] < replace(ret.val[2][1], cfgEnd)

----------------------------------------------------------------------------
\* the two texts are hours of the day, the first before the second
ValidEntries(a, b) == a.kind # "bad" /\ b.kind # "bad" /\ a.slot < b.slot

\* dict d holds the business hours from slot a to slot b, as texts with minutes
HoldsHours(d, a, b) ==
    /\ \A p \in d : p[1] = "business_start" => (p[2].kind = "hour:minute" /\ p[2].slot = a)
    /\ \A p \in d : p[1] = "business_end" => (p[2].kind = "hour:minute" /\ p[2].slot = b)
    /\ {p[1] : p \in d} = {"business_start", "business_end"}

(* C24: update_business_hours is all-or-nothing.  When a text does not     *)
(* parse, or the two parse to start >= end, the engine configuration, the  *)
(* config dict and the saved config stay as they were and save_config is   *)
(* not called; when they parse to start < end, the engine configuration    *)
(* and the config dict take the new hours and save_config is called once.  *)
C24_UpdateAllOrNothing ==
    [][ret'.op = "update_business_hours" =>
        LET a == ret'.args[1]
            b == ret'.args[2]
        IN  IF ValidEntries(a, b)
            THEN /\ <<cfgStart', cfgEnd'>> = <<a.slot, b.slot>>
                 /\ HoldsHours(config', a.slot, b.slot)
                 /\ saved_config' = config'
                 /\ ret'.saves = 1
            ELSE /\ <<cfgStart', cfgEnd'>> = <<cfgStart, cfgEnd>>
                 /\ config' = config
                 /\ saved_config' = saved_config
                 /\ ret'.saves = 0]_vars

\* hours in the wrong order entered after hours that were accepted: the
\* accepted ones are still in force, in the dict and saved
C24_Witness ==
    /\ Returned("update_business_hours")
    /\ ret.val = "ValueError"
    /\ ret.args[1].slot > ret.args[2].slot
    /\ <<cfgStart, cfgEnd>> # <<DefaultStart, DefaultEnd>>
    /\ HoldsHours(config, cfgStart, cfgEnd)
    /\ saved_config = config

----------------------------------------------------------------------------
(* C22: log_order returns True exactly when one of the given               *)
(* (order_number, step) pairs was not stored yet; after it every given     *)
(* pair is stored, every row stored before is still there with its         *)
(* timestamp, and no pair has two rows.  A call that repeats the order and *)
(* steps of the call before it returns False and leaves the table as it    *)
(* was.                                                                    *)
C22_LogOrderIdempotent ==
    /\ [](\A r1, r2 \in steps_table :
            (r1.order_number = r2.order_number /\ r1.step = r2.step) => r1 = r2)
    /\ [][ret'.op = "log_order" =>
            LET order_number == ret'.args[1]
            IN  /\ ret'.val <=> \E n \in ret'.steps : ~stored(steps_table, order_number, n)
                /\ \A n \in ret'.steps : stored(steps_table', order_number, n)
                /\ steps_table \subseteq steps_table'
                /\ ~ret'.val => steps_table' = steps_table]_vars
    /\ [][(ret.op = "log_order" /\ ret'.op = "log_order"
            /\ ret'.args = ret.args /\ ret'.steps = ret.steps)
            => (ret'.val = FALSE /\ steps_table' = steps_table)]_vars

\* a call that found both of its steps stored
C22_Witness ==
    /\ Returned("log_order")
    /\ ret.val = FALSE
    /\ ret.steps = StepNames
    /\ \A n \in StepNames : stored(steps_table, ret.args[1], n)

----------------------------------------------------------------------------
(* C23: after any sequence of record_print_file_start calls the            *)
(* print_file table holds at most one row for an order, and the row's      *)
(* started_at is the time of the first call for that order.                *)
C23_FirstStartKept ==
    /\ \A r1, r2 \in print_file : r1.order_number = r2.order_number => r1 = r2
    /\ \A r \in print_file :
          \E f \in first_call : f.order_number = r.order_number /\ f.at = r.started_at

----------------------------------------------------------------------------
(* C26: on every pair of row strings _calc_hours returns without raising,  *)
(* and its result rounded to two decimals is the result of                 *)
(* calculate_hours: zero where calculate_hours returns zero, the same      *)
(* business duration elsewhere.                                            *)
C26_ReportAgreesWithEngine ==
    Returned("_calc_hours") =>
        /\ ret.raised = "no"
        /\ round_hours(ret.val, 0) = calculate_hours(ret.args[1], ret.args[2]).val

====
